---- MODULE Spec2Model ----
(***************************************************************************)
(* Model of the API documentation validator: the snapshot store and drift  *)
(* analyser of drift_detector.py, the endpoint validator of                *)
(* api_validator.py and the commands of main.py.                           *)
(*                                                                         *)
(* Python values are represented as follows.                               *)
(*   - an optional value (a key that may be missing from a dict, or None)  *)
(*     is a sequence of length 0 or 1: None == <<>>, Some(x) == <<x>>;     *)
(*   - a dict is a sequence of <<key, value>> pairs with distinct keys, in *)
(*     insertion order (Python dicts iterate in insertion order);          *)
(*   - a list is a sequence.                                               *)
(***************************************************************************)
EXTENDS Integers, Sequences, FiniteSets, TLC

VARIABLES
    snapshots,   \* DriftDetector.snapshots: the in-memory history
    file,        \* contents of <history_dir>/history.json, None if absent
    clock,       \* the wall clock read by datetime.utcnow()
    last,        \* the last DriftDetector call: its name, argument, the
                 \* history before it and the value it returned
    changelog,   \* None, or the arguments and the result of the last
                 \* generate_changelog call
    old_spec,    \* first argument of a direct _analyze_changes call
    new_spec,    \* second argument of a direct _analyze_changes call
    changes,     \* None, or the ChangeSet that call returned
    spec,        \* APIValidator.spec
    issues,      \* APIValidator.issues
    todo,        \* the (path, method, details) still to visit in the loop
    requests,    \* the HTTP requests issued so far, in order
    attempt,     \* the last _validate_endpoint call: its arguments, what
                 \* requests.request did and the issues it appended
    pc,          \* position of validate_all_endpoints
    cli          \* the last run of main(): its command line and
                 \* environment, what the run met and the exit code

driftVars == <<snapshots, file, clock, last, changelog>>
diffVars  == <<old_spec, new_spec, changes>>
valVars   == <<spec, issues, todo, requests, attempt, pc>>
cliVars   == <<cli>>
vars      == <<snapshots, file, clock, last, changelog, old_spec, new_spec,
               changes, spec, issues, todo, requests, attempt, pc, cli>>

----------------------------------------------------------------------------
(* Python values *)

None == <<>>
Some(x) == <<x>>
IsNone(o) == Len(o) = 0
IsSome(o) == Len(o) = 1
\* o.get(default): the value, or the default when the key is missing
OrElse(o, default) == IF Len(o) = 0 THEN default ELSE o[1]

EmptyDict == <<>>
Range(s) == {s[i] : i \in 1..Len(s)}
\* list(d.keys()), in insertion order
Keys(d) == [i \in 1..Len(d) |-> d[i][1]]
\* k in d
HasKey(d, k) == \E i \in 1..Len(d) : d[i][1] = k
\* d[k]
Get(d, k) == d[CHOOSE i \in 1..Len(d) : d[i][1] = k][2]

RECURSIVE Flatten(_)
Flatten(ss) == IF Len(ss) = 0 THEN <<>> ELSE Head(ss) \o Flatten(Tail(ss))

RECURSIVE Sum(_)
Sum(ns) == IF Len(ns) = 0 THEN 0 ELSE Head(ns) + Sum(Tail(ns))

\* str.upper() on the keys of a path item
Upper(method) ==
    CASE method = "get" -> "GET"
      [] method = "post" -> "POST"
      [] method = "put" -> "PUT"
      [] method = "patch" -> "PATCH"
      [] method = "delete" -> "DELETE"
      [] method = "head" -> "HEAD"
      [] OTHER -> method

\* f"{method.upper()} {path}"
Endpoint(method, path) == Upper(method) \o " " \o path

\* Iteration order of a Python set of strings: it follows the strings' hashes,
\* which are randomised per process; order is the order of this process.
SetIter(S, order) == SelectSeq(order, LAMBDA k : k \in S)

----------------------------------------------------------------------------
(* drift_detector.py: the structural diff *)

\* _extract_schema: response_spec.get('content', {})
\*                    .get('application/json', {}).get('schema')
\* A response is modelled by the one field that chain can reach.
_extract_schema(response_spec) == response_spec.schema

\* {p['name']: p for p in params}: a later parameter of the same name
\* replaces the value, the key keeps the position of its first occurrence.
ParamsByName(params) ==
    LET first == SelectSeq([i \in 1..Len(params) |-> i],
                   LAMBDA i : \A j \in 1..(i-1) : params[j].name # params[i].name)
        lastOf(n) == CHOOSE i \in 1..Len(params) :
                        /\ params[i].name = n
                        /\ \A j \in (i+1)..Len(params) : params[j].name # n
    IN  [k \in 1..Len(first) |->
            <<params[first[k]].name, params[lastOf(params[first[k]].name)]>>]

\* json.dumps(x, sort_keys=True) for the operation, path item and document:
\* the text depends on the keys and values of every dict and not on their
\* insertion order, so a dict is serialised as its set of pairs.  The same
\* form decides == between two dicts.
CanonResponses(responses) ==
    {<<responses[i][1], responses[i][2]>> : i \in 1..Len(responses)}

CanonOp(op) ==
    [parameters |-> op.parameters,
     responses  |-> IF IsNone(op.responses) THEN None
                    ELSE Some(CanonResponses(op.responses[1]))]

CanonItem(item) == {<<item[i][1], CanonOp(item[i][2])>> : i \in 1..Len(item)}

CanonPaths(paths) ==
    {<<paths[i][1], CanonItem(paths[i][2])>> : i \in 1..Len(paths)}

CanonSpec(s) ==
    [info_version |-> s.info_version,
     paths        |-> IF IsNone(s.paths) THEN None
                      ELSE Some(CanonPaths(s.paths[1]))]

\* old_paths[path][method] != new_paths[path][method]
OpDiffers(old_op, new_op) == CanonOp(old_op) # CanonOp(new_op)

BreakingChange(type, endpoint, severity, parameter, status_code) ==
    [type |-> type, endpoint |-> endpoint, severity |-> severity,
     parameter |-> parameter, status_code |-> status_code]

RemovedParameters(path, method, old_op, new_op) ==
    LET old_params == ParamsByName(OrElse(old_op.parameters, <<>>))
        new_params == ParamsByName(OrElse(new_op.parameters, <<>>))
    IN  Flatten([i \in 1..Len(old_params) |->
            IF /\ OrElse(old_params[i][2].required, FALSE)
               /\ ~HasKey(new_params, old_params[i][1])
            THEN <<BreakingChange("required_parameter_removed",
                       Endpoint(method, path), "critical",
                       Some(old_params[i][1]), None)>>
            ELSE <<>>])

\* ChangedSchemas with the severity of a removal
ChangedSchemas_Critical(path, method, old_op, new_op) ==
    LET old_responses == OrElse(old_op.responses, EmptyDict)
        new_responses == OrElse(new_op.responses, EmptyDict)
    IN  Flatten([i \in 1..Len(old_responses) |->
            LET status_code == old_responses[i][1] IN
            IF /\ HasKey(new_responses, status_code)
               /\ _extract_schema(old_responses[i][2])
                    # _extract_schema(Get(new_responses, status_code))
            THEN <<BreakingChange("response_schema_changed",
                       Endpoint(method, path), "critical",
                       None, Some(status_code))>>
            ELSE <<>>])

ChangedSchemas(path, method, old_op, new_op) ==
    LET old_responses == OrElse(old_op.responses, EmptyDict)
        new_responses == OrElse(new_op.responses, EmptyDict)
    IN  Flatten([i \in 1..Len(old_responses) |->
            LET status_code == old_responses[i][1] IN
            IF /\ HasKey(new_responses, status_code)
               /\ _extract_schema(old_responses[i][2])
                    # _extract_schema(Get(new_responses, status_code))
            THEN <<BreakingChange("response_schema_changed",
                       Endpoint(method, path), "warning",
                       None, Some(status_code))>>
            ELSE <<>>])

_check_breaking_changes(path, method, old_op, new_op) ==
    RemovedParameters(path, method, old_op, new_op)
        \o ChangedSchemas(path, method, old_op, new_op)

\* AddedEndpoints without the test "path not in old_paths"
AddedEndpoints_EveryPath(old_paths, new_paths) ==
    Flatten([i \in 1..Len(new_paths) |->
        [j \in 1..Len(new_paths[i][2]) |->
            Endpoint(new_paths[i][2][j][1], new_paths[i][1])]])

\* first loop of _analyze_changes
AddedEndpoints(old_paths, new_paths) ==
    Flatten([i \in 1..Len(new_paths) |->
        IF HasKey(old_paths, new_paths[i][1]) THEN <<>>
        ELSE [j \in 1..Len(new_paths[i][2]) |->
                Endpoint(new_paths[i][2][j][1], new_paths[i][1])]])

\* second loop of _analyze_changes
RemovedEndpoints(old_paths, new_paths) ==
    Flatten([i \in 1..Len(old_paths) |->
        IF HasKey(new_paths, old_paths[i][1]) THEN <<>>
        ELSE [j \in 1..Len(old_paths[i][2]) |->
                Endpoint(old_paths[i][2][j][1], old_paths[i][1])]])

\* EndpointRemoved with the severity of a schema change
EndpointRemoved_Warning(endpoint) ==
    BreakingChange("endpoint_removed", endpoint, "warning", None, None)

EndpointRemoved(endpoint) ==
    BreakingChange("endpoint_removed", endpoint, "critical", None, None)

MethodRemoved(endpoint) ==
    BreakingChange("method_removed", endpoint, "critical", None, None)

\* RemovedMethods taking the methods that either side lacks
RemovedMethods_EitherSide(old_methods, new_methods) == (old_methods \ new_methods) \cup (new_methods \ old_methods)

\* RemovedMethods with the operands exchanged
RemovedMethods_Swapped(old_methods, new_methods) == new_methods \ old_methods

\* removed_methods = old_methods - new_methods
RemovedMethods(old_methods, new_methods) == old_methods \ new_methods

\* third loop of _analyze_changes, for one path present in both documents:
\* the method_removed entries, the modified endpoints and their breaking
\* changes.  removed_methods and common_methods are Python sets.
ModifiedInPath(path, old_item, new_item, order) ==
    LET old_methods == Range(Keys(old_item))
        new_methods == Range(Keys(new_item))
        removed_methods ==
            SetIter(RemovedMethods(old_methods, new_methods), order)
        common_methods  == SetIter(old_methods \cap new_methods, order)
        differs(m) == OpDiffers(Get(old_item, m), Get(new_item, m))
    IN  [modified |->
            Flatten([i \in 1..Len(common_methods) |->
                IF differs(common_methods[i])
                THEN <<Endpoint(common_methods[i], path)>> ELSE <<>>]),
         breaking |->
            [i \in 1..Len(removed_methods) |->
                MethodRemoved(Endpoint(removed_methods[i], path))]
            \o Flatten([i \in 1..Len(common_methods) |->
                IF differs(common_methods[i])
                THEN _check_breaking_changes(path, common_methods[i],
                        Get(old_item, common_methods[i]),
                        Get(new_item, common_methods[i]))
                ELSE <<>>])]

\* _analyze_changes listing under removed_endpoints the methods that a path
\* present in both documents has lost
_analyze_changes_ListsLostMethods(old, new, order) ==
    LET old_paths == OrElse(old.paths, EmptyDict)
        new_paths == OrElse(new.paths, EmptyDict)
        removed == RemovedEndpoints(old_paths, new_paths)
        inBoth == SelectSeq([i \in 1..Len(old_paths) |-> old_paths[i]],
                      LAMBDA kv : HasKey(new_paths, kv[1]))
        perPath == [i \in 1..Len(inBoth) |->
                      ModifiedInPath(inBoth[i][1], inBoth[i][2],
                          Get(new_paths, inBoth[i][1]), order)]
        breaking == Flatten([i \in 1..Len(perPath) |-> perPath[i].breaking])
        lost == SelectSeq(breaking, LAMBDA bc : bc.type = "method_removed")
    IN  [added_endpoints    |-> AddedEndpoints(old_paths, new_paths),
         removed_endpoints  |->
            removed \o [i \in 1..Len(lost) |-> lost[i].endpoint],
         modified_endpoints |->
            Flatten([i \in 1..Len(perPath) |-> perPath[i].modified]),
         breaking_changes   |->
            [i \in 1..Len(removed) |-> EndpointRemoved(removed[i])]
            \o breaking]

_analyze_changes(old, new, order) ==
    LET old_paths == OrElse(old.paths, EmptyDict)
        new_paths == OrElse(new.paths, EmptyDict)
        removed == RemovedEndpoints(old_paths, new_paths)
        inBoth == SelectSeq([i \in 1..Len(old_paths) |-> old_paths[i]],
                      LAMBDA kv : HasKey(new_paths, kv[1]))
        perPath == [i \in 1..Len(inBoth) |->
                      ModifiedInPath(inBoth[i][1], inBoth[i][2],
                          Get(new_paths, inBoth[i][1]), order)]
    IN  [added_endpoints    |-> AddedEndpoints(old_paths, new_paths),
         removed_endpoints  |-> removed,
         modified_endpoints |->
            Flatten([i \in 1..Len(perPath) |-> perPath[i].modified]),
         breaking_changes   |->
            [i \in 1..Len(removed) |-> EndpointRemoved(removed[i])]
            \o Flatten([i \in 1..Len(perPath) |-> perPath[i].breaking])]

----------------------------------------------------------------------------
(* The documents the model is run on *)

MaxParams == 2

Perms(S) ==
    {p \in [1..Cardinality(S) -> S] :
        \A i, j \in 1..Cardinality(S) : i # j => p[i] # p[j]}

\* every dict with keys in K and values in V, in every insertion order
OrderedDicts(K, V) ==
    UNION {UNION {{[i \in 1..Cardinality(S) |-> <<p[i], vs[i]>>] :
                        vs \in [1..Cardinality(S) -> V]} :
                  p \in Perms(S)} :
           S \in SUBSET K}

Schema(type, required) == [type |-> type, required |-> required]
Response(schema) == [schema |-> schema]
Param(name, in, required, example) ==
    [name |-> name, in |-> in, required |-> required, example |-> example]
Operation(parameters, responses) ==
    [parameters |-> parameters, responses |-> responses]
Document(info_version, paths) ==
    [info_version |-> info_version, paths |-> paths]

PathNames   == {"/users", "/items"}
MethodNames == {"get", "post"}
StatusCodes == {"200", "404"}

SchemaId     == Schema(Some("object"), Some(<<"id">>))
SchemaIdName == Schema(Some("object"), Some(<<"id", "name">>))
Schemas      == {None, Some(SchemaId), Some(SchemaIdName)}

IdInPath == Param("id", "path", Some(TRUE), None)

\* Two operations for the documents that vary in their paths and methods.
OpGet  == Operation(Some(<<IdInPath>>),
                    Some(<< <<"200", Response(Some(SchemaId))>> >>))
OpPost == Operation(None,
                    Some(<< <<"200", Response(Some(SchemaIdName))>> >>))

\* path items: OpGet under any method, OpPost under post only
StructItems ==
    {item \in OrderedDicts(MethodNames, {OpGet, OpPost}) :
        \A i \in 1..Len(item) : item[i][2] = OpPost => item[i][1] = "post"}
StructDocs ==
    {Document(None, None)}
        \cup {Document(None, Some(p)) : p \in OrderedDicts(PathNames, StructItems)}

\* The operations for the documents that vary in one operation.
ParamUniverse ==
    {IdInPath,
     Param("id", "query", Some(FALSE), None),
     Param("q", "query", Some(TRUE), None),
     Param("q", "query", None, None)}
ParamLists == UNION {[1..n -> ParamUniverse] : n \in 0..MaxParams}
ResponseDicts ==
    OrderedDicts(StatusCodes, {Response(s) : s \in Schemas})
RichOps ==
    {Operation(Some(ps), OpGet.responses) : ps \in ParamLists}
        \cup {Operation(Some(ps), OpPost.responses) : ps \in ParamLists}
        \cup {Operation(ps, Some(r)) :
                ps \in {None, OpGet.parameters}, r \in ResponseDicts}
        \cup {Operation(ps, None) : ps \in {None, OpGet.parameters}}
OneEndpoint(op) ==
    Document(None, Some(<< <<"/users", << <<"get", op>> >> >> >>))

DiffPairs ==
    (StructDocs \X StructDocs)
        \cup {<<OneEndpoint(a), OneEndpoint(b)>> : a \in RichOps, b \in RichOps}

----------------------------------------------------------------------------
(* State before any call *)

NoCall == [op |-> "none", arg |-> None, before |-> <<>>,
           ret |-> None, report |-> None]

\* main() has not run
NoRun == [returned |-> FALSE, command |-> None, ai_analysis |-> FALSE,
          api_key |-> FALSE, llm |-> "ok", fault |-> "none",
          issues |-> <<>>, analysis |-> None, exit_code |-> 0]

DriftIdle == snapshots = <<>> /\ file = None /\ clock = 0 /\ last = NoCall
                /\ changelog = None
DiffIdle  == old_spec = Document(None, None)
                /\ new_spec = Document(None, None) /\ changes = None
ValIdle   == spec = Document(None, None) /\ issues = <<>> /\ todo = <<>>
                /\ requests = <<>> /\ attempt = None /\ pc = "idle"
CliIdle   == cli = NoRun

----------------------------------------------------------------------------
(* DiffSpec: _analyze_changes applied to a pair of documents *)

DiffInit ==
    /\ \E pair \in DiffPairs : old_spec = pair[1] /\ new_spec = pair[2]
    /\ changes = None
    /\ DriftIdle /\ ValIdle /\ CliIdle

AnalyzeChanges ==
    /\ changes = None
    /\ \E order \in Perms(MethodNames) :
          changes' = Some(_analyze_changes(old_spec, new_spec, order))
    /\ UNCHANGED <<old_spec, new_spec>>
    /\ UNCHANGED driftVars /\ UNCHANGED valVars
    /\ UNCHANGED cliVars

DiffNext == AnalyzeChanges

DiffSpec == DiffInit /\ [][DiffNext]_vars

----------------------------------------------------------------------------
(* drift_detector.py: the snapshot store *)

MaxClock == 3

SpecSnapshot(timestamp, spec_hash, spec_version, endpoints_count, spec_data) ==
    [timestamp |-> timestamp, spec_hash |-> spec_hash,
     spec_version |-> spec_version, endpoints_count |-> endpoints_count,
     spec_data |-> spec_data]

\* A dict key that is a Python int, as yaml.safe_load gives for a status
\* code written without quotes, is written "int:200"; the str key is "200".
\* json.dumps writes the key of a dict as a string: the int 200 as "200".
JsonKey(k) ==
    CASE k = "int:200" -> "200"
      [] k = "int:404" -> "404"
      [] OTHER -> k

\* json.loads(json.dumps(spec_data)): the document with every key a str
JsonResponses(responses) ==
    [i \in 1..Len(responses) |-> <<JsonKey(responses[i][1]), responses[i][2]>>]
JsonItem(item) ==
    [i \in 1..Len(item) |->
        <<item[i][1],
          [item[i][2] EXCEPT !.responses =
              IF IsNone(@) THEN None ELSE Some(JsonResponses(@[1]))]>>]
JsonOf(spec_data) ==
    [spec_data EXCEPT !.paths =
        IF IsNone(@) THEN None
        ELSE Some([i \in 1..Len(@[1]) |-> <<@[1][i][1], JsonItem(@[1][i][2])>>])]

\* the fingerprint of json.dumps(spec_data) without sort_keys: the text
\* follows the insertion order of every dict
SpecHash_Unsorted(spec_data) == JsonOf(spec_data)

\* hashlib.sha256(json.dumps(spec_data, sort_keys=True).encode())
\*     .hexdigest()[:12]
\* The digest is modelled as injective on the serialised text: two documents
\* get the same fingerprint exactly when their key-sorted texts are equal.
SpecHash(spec_data) == CanonSpec(JsonOf(spec_data))

\* sum(len(methods) for methods in spec_data.get('paths', {}).values())
EndpointsCount(spec_data) ==
    LET paths == OrElse(spec_data.paths, EmptyDict)
    IN  Sum([i \in 1..Len(paths) |-> Len(paths[i][2])])

\* spec_data.get('info', {}).get('version', 'unknown')
SpecVersion(spec_data) == OrElse(spec_data.info_version, "unknown")

\* dataclasses.asdict(snapshot): a dict of the fields in declaration order
asdict(snapshot) ==
    << <<"timestamp", snapshot.timestamp>>,
       <<"spec_hash", snapshot.spec_hash>>,
       <<"spec_version", snapshot.spec_version>>,
       <<"endpoints_count", snapshot.endpoints_count>>,
       <<"spec_data", snapshot.spec_data>> >>

\* json.dump of the dict of one snapshot, as json.load reads it back
JsonSnapshot(d) ==
    [i \in 1..Len(d) |->
        IF d[i][1] = "spec_data" THEN <<d[i][1], JsonOf(d[i][2])>> ELSE d[i]]

\* _save_history: the contents of history.json, as json.load reads them
_save_history(snaps) ==
    Some([i \in 1..Len(snaps) |-> JsonSnapshot(asdict(snaps[i]))])

\* _load_history: SpecSnapshot(**snapshot) for each entry of the file, the
\* empty history when there is no file
_load_history(f) ==
    IF IsNone(f) THEN <<>>
    ELSE [i \in 1..Len(f[1]) |->
            SpecSnapshot(Get(f[1][i], "timestamp"), Get(f[1][i], "spec_hash"),
                         Get(f[1][i], "spec_version"),
                         Get(f[1][i], "endpoints_count"),
                         Get(f[1][i], "spec_data"))]

\* IsNewSnapshot without the comparison with the last snapshot
IsNewSnapshot_Always(snaps, spec_hash) == TRUE

\* if not self.snapshots or self.snapshots[-1].spec_hash != spec_hash
IsNewSnapshot(snaps, spec_hash) ==
    \/ Len(snaps) = 0
    \/ snaps[Len(snaps)].spec_hash # spec_hash

\* capture_snapshot keeping the newest snapshot only
capture_snapshot_KeepsNewest(snaps, f, now, spec_data) ==
    LET snapshot == SpecSnapshot(now, SpecHash(spec_data),
                        SpecVersion(spec_data), EndpointsCount(spec_data),
                        spec_data)
    IN  IF IsNewSnapshot(snaps, snapshot.spec_hash)
        THEN [snapshots |-> <<snapshot>>,
              file      |-> _save_history(<<snapshot>>),
              ret       |-> snapshot]
        ELSE [snapshots |-> snaps, file |-> f, ret |-> snaps[Len(snaps)]]

\* capture_snapshot returning the snapshot it built also when it stores none
capture_snapshot_ReturnsNew(snaps, f, now, spec_data) ==
    LET snapshot == SpecSnapshot(now, SpecHash(spec_data),
                        SpecVersion(spec_data), EndpointsCount(spec_data),
                        spec_data)
    IN  IF IsNewSnapshot(snaps, snapshot.spec_hash)
        THEN [snapshots |-> Append(snaps, snapshot),
              file      |-> _save_history(Append(snaps, snapshot)),
              ret       |-> snapshot]
        ELSE [snapshots |-> snaps, file |-> f, ret |-> snapshot]

\* capture_snapshot: the history, the file and the value returned
capture_snapshot(snaps, f, now, spec_data) ==
    LET snapshot == SpecSnapshot(now, SpecHash(spec_data),
                        SpecVersion(spec_data), EndpointsCount(spec_data),
                        spec_data)
    IN  IF IsNewSnapshot(snaps, snapshot.spec_hash)
        THEN [snapshots |-> Append(snaps, snapshot),
              file      |-> _save_history(Append(snaps, snapshot)),
              ret       |-> snapshot]
        ELSE [snapshots |-> snaps, file |-> f, ret |-> snaps[Len(snaps)]]

DriftReport(has_drift, message, previous, current, changeset) ==
    [has_drift |-> has_drift, message |-> message,
     previous_version |-> previous.spec_version,
     current_version |-> current.spec_version,
     previous_timestamp |-> previous.timestamp,
     current_timestamp |-> current.timestamp,
     changes |-> changeset]

\* the reports without a comparison carry has_drift and message only
NoSnapshotFields == [spec_version |-> None, timestamp |-> None]
NoDrift(message) ==
    DriftReport(FALSE, Some(message), NoSnapshotFields, NoSnapshotFields, None)

\* DriftOf reading self.snapshots[-1] after the capture: last_snapshot is
\* then the current snapshot
DriftOf_LastAfterCapture(last_snapshot, current_snapshot, current_spec, order) ==
    NoDrift("No changes detected since last snapshot")

\* detect_drift on a history that is not empty
DriftOf(last_snapshot, current_snapshot, current_spec, order) ==
    IF last_snapshot.spec_hash = current_snapshot.spec_hash
    THEN NoDrift("No changes detected since last snapshot")
    ELSE DriftReport(TRUE, None,
            [spec_version |-> Some(last_snapshot.spec_version),
             timestamp |-> Some(last_snapshot.timestamp)],
            [spec_version |-> Some(current_snapshot.spec_version),
             timestamp |-> Some(current_snapshot.timestamp)],
            Some(_analyze_changes(last_snapshot.spec_data, current_spec, order)))

\* The documents given to the store.
ItemGet     == << <<"get", OpGet>> >>
ItemGetPost == << <<"get", OpGet>>, <<"post", OpPost>> >>
StoreVersions == {None, Some("1.0")}
StorePaths ==
    {None, Some(<< <<"/users", ItemGetPost>> >>)}
        \cup {Some(p) : p \in OrderedDicts(PathNames, {ItemGet})}
StoreDocs == {Document(v, p) : v \in StoreVersions, p \in StorePaths}

DriftInit == DriftIdle /\ DiffIdle /\ ValIdle /\ CliIdle

\* DriftDetector(history_dir): a new detector on the same directory
Construct ==
    /\ snapshots' = _load_history(file)
    /\ last' = [NoCall EXCEPT !.op = "__init__", !.before = snapshots]
    /\ UNCHANGED <<file, clock, changelog>>
    /\ UNCHANGED diffVars /\ UNCHANGED valVars
    /\ UNCHANGED cliVars

\* detector.capture_snapshot(spec_data); the clock is read once and moves on
CaptureSnapshot ==
    /\ clock < MaxClock
    /\ \E spec_data \in StoreDocs :
          LET r == capture_snapshot(snapshots, file, clock, spec_data) IN
          /\ snapshots' = r.snapshots
          /\ file' = r.file
          /\ last' = [op |-> "capture_snapshot", arg |-> Some(spec_data),
                      before |-> snapshots, ret |-> Some(r.ret),
                      report |-> None]
    /\ clock' = clock + 1
    /\ UNCHANGED changelog
    /\ UNCHANGED diffVars /\ UNCHANGED valVars
    /\ UNCHANGED cliVars

\* detector.detect_drift(current_spec) when there is no snapshot
DetectDriftEmpty ==
    /\ Len(snapshots) = 0
    /\ \E current_spec \in StoreDocs :
          last' = [op |-> "detect_drift", arg |-> Some(current_spec),
                   before |-> snapshots, ret |-> None,
                   report |-> Some(NoDrift(
                       "No previous snapshots to compare against"))]
    /\ UNCHANGED <<snapshots, file, clock, changelog>>
    /\ UNCHANGED diffVars /\ UNCHANGED valVars
    /\ UNCHANGED cliVars

\* detector.detect_drift(current_spec) when there is one
DetectDrift ==
    /\ Len(snapshots) > 0
    /\ clock < MaxClock
    /\ \E current_spec \in StoreDocs, order \in Perms(MethodNames) :
          LET last_snapshot == snapshots[Len(snapshots)]
              r == capture_snapshot(snapshots, file, clock, current_spec)
          IN  /\ snapshots' = r.snapshots
              /\ file' = r.file
              /\ last' = [op |-> "detect_drift", arg |-> Some(current_spec),
                          before |-> snapshots, ret |-> None,
                          report |-> Some(DriftOf(last_snapshot, r.ret,
                                                  current_spec, order))]
    /\ clock' = clock + 1
    /\ UNCHANGED changelog
    /\ UNCHANGED diffVars /\ UNCHANGED valVars
    /\ UNCHANGED cliVars

Next == Construct \/ CaptureSnapshot \/ DetectDriftEmpty \/ DetectDrift

Spec == DriftInit /\ [][Next]_vars

----------------------------------------------------------------------------
(* drift_detector.py: the changelog *)

\* what generate_changelog returns: a message, or the changelog, which is
\* rendered from the two snapshots and the ChangeSet
Changelog(message, from_snapshot, to_snapshot, changeset) ==
    [message |-> message, from_snapshot |-> from_snapshot,
     to_snapshot |-> to_snapshot, changes |-> changeset]

\* next((s for s in self.snapshots if s.spec_version == version), None)
FirstWithVersion(snaps, version) ==
    LET matches == {i \in 1..Len(snaps) : snaps[i].spec_version = version}
    IN  IF matches = {} THEN None
        ELSE Some(snaps[CHOOSE i \in matches : \A j \in matches : i <= j])

\* generate_changelog taking the first and the last snapshot whatever the
\* versions asked for
generate_changelog_IgnoresVersions(snaps, from_version, to_version, order) ==
    IF Len(snaps) < 2
    THEN Changelog(Some("Not enough snapshots to generate changelog"),
                   None, None, None)
    ELSE Changelog(None, Some(snaps[1]), Some(snaps[Len(snaps)]),
            Some(_analyze_changes(snaps[1].spec_data,
                                  snaps[Len(snaps)].spec_data, order)))

generate_changelog(snaps, from_version, to_version, order) ==
    IF Len(snaps) < 2
    THEN Changelog(Some("Not enough snapshots to generate changelog"),
                   None, None, None)
    ELSE LET from_snapshot ==
                 IF IsNone(from_version) THEN Some(snaps[1])
                 ELSE FirstWithVersion(snaps, from_version[1])
             to_snapshot ==
                 IF IsNone(to_version) THEN Some(snaps[Len(snaps)])
                 ELSE FirstWithVersion(snaps, to_version[1])
         IN  IF IsNone(from_snapshot) \/ IsNone(to_snapshot)
             THEN Changelog(Some("Could not find specified versions"),
                            None, None, None)
             ELSE Changelog(None, from_snapshot, to_snapshot,
                     Some(_analyze_changes(from_snapshot[1].spec_data,
                                           to_snapshot[1].spec_data, order)))

\* the history after capture_snapshot was called on each document in turn
RECURSIVE HistoryOf(_)
HistoryOf(docs) ==
    IF Len(docs) = 0 THEN <<>>
    ELSE LET n == Len(docs)
             before == HistoryOf(SubSeq(docs, 1, n - 1))
         IN  capture_snapshot(before, _save_history(before), n - 1,
                              docs[n]).snapshots

\* the documents of the histories and the versions asked for
LogDocs ==
    {Document(Some(v), Some(<< <<"/users", item>> >>)) :
        v \in {"1.0", "2.0"}, item \in {ItemGet, ItemGetPost}}
LogVersions == {None, Some("1.0"), Some("2.0"), Some("3.0")}

\* LogSpec: generate_changelog on a history of up to MaxClock captures
LogInit ==
    /\ \E n \in 0..MaxClock : \E docs \in [1..n -> LogDocs] :
          /\ snapshots = HistoryOf(docs)
          /\ file = IF n = 0 THEN None ELSE _save_history(HistoryOf(docs))
          /\ clock = n
    /\ last = NoCall /\ changelog = None
    /\ DiffIdle /\ ValIdle /\ CliIdle

GenerateChangelog ==
    /\ \E from_version \in LogVersions, to_version \in LogVersions,
          order \in Perms(MethodNames) :
          changelog' = Some([from_version |-> from_version,
                             to_version |-> to_version,
                             ret |-> generate_changelog(snapshots,
                                        from_version, to_version, order)])
    /\ UNCHANGED <<snapshots, file, clock, last>>
    /\ UNCHANGED diffVars /\ UNCHANGED valVars
    /\ UNCHANGED cliVars

LogNext == GenerateChangelog

LogSpec == LogInit /\ [][LogNext]_vars

----------------------------------------------------------------------------
(* FileSpec: the store of Spec, on a directory that is empty or holds the
   history of a document read from YAML *)

\* GET /users with the response 200 declared without quotes
OpGetInt ==
    Operation(None, Some(<< <<"int:200", Response(Some(SchemaId))>> >>))
YamlDoc ==
    Document(Some("1.0"), Some(<< <<"/users", << <<"get", OpGetInt>> >> >> >>))

FileInit ==
    /\ \E docs \in {<<>>, <<YamlDoc>>} :
          /\ snapshots = HistoryOf(docs)
          /\ file = IF Len(docs) = 0 THEN None
                    ELSE _save_history(HistoryOf(docs))
          /\ clock = Len(docs)
    /\ last = NoCall /\ changelog = None
    /\ DiffIdle /\ ValIdle /\ CliIdle

FileSpec == FileInit /\ [][Next]_vars

----------------------------------------------------------------------------
(* HistSpec: every call of the detector on one history *)

DriftSummary(total_snapshots, message, first_snapshot, latest_snapshot, current_version, total_endpoints) ==
    [total_snapshots |-> total_snapshots, message |-> message,
     first_snapshot |-> first_snapshot, latest_snapshot |-> latest_snapshot,
     current_version |-> current_version,
     total_endpoints |-> total_endpoints]

get_drift_summary(snaps) ==
    IF Len(snaps) = 0
    THEN DriftSummary(0, Some("No snapshots captured"), None, None, None, None)
    ELSE DriftSummary(Len(snaps), None,
            Some(snaps[1].timestamp), Some(snaps[Len(snaps)].timestamp),
            Some(snaps[Len(snaps)].spec_version),
            Some(snaps[Len(snaps)].endpoints_count))

\* detector.get_drift_summary()
GetDriftSummary ==
    /\ last' = [op |-> "get_drift_summary", arg |-> None,
                before |-> snapshots, ret |-> None,
                report |-> Some(get_drift_summary(snapshots))]
    /\ UNCHANGED <<snapshots, file, clock, changelog>>
    /\ UNCHANGED diffVars /\ UNCHANGED valVars
    /\ UNCHANGED cliVars

\* the documents of the histories the calls start from
HistDocs ==
    {Document(Some("1.0"), Some(<< <<"/users", ItemGet>> >>)),
     Document(Some("2.0"), Some(<< <<"/users", ItemGetPost>> >>))}

\* a history of fewer than MaxClock captures, with one reading of the clock
\* left
HistInit ==
    /\ \E n \in 0..(MaxClock - 1) : \E docs \in [1..n -> HistDocs] :
          /\ snapshots = HistoryOf(docs)
          /\ file = IF n = 0 THEN None ELSE _save_history(HistoryOf(docs))
    /\ clock = MaxClock - 1
    /\ last = NoCall /\ changelog = None
    /\ DiffIdle /\ ValIdle /\ CliIdle

HistNext == Next \/ GenerateChangelog \/ GetDriftSummary

HistSpec == HistInit /\ [][HistNext]_vars

----------------------------------------------------------------------------
(* api_validator.py *)

\* a Python value with its type name: the str "42", the int 42
PyStr(s)  == [type |-> "str", text |-> s, items |-> <<>>]
PyInt(s)  == [type |-> "int", text |-> s, items |-> <<>>]
PyList(l) == [type |-> "list", text |-> "", items |-> l]
\* str(v) for a str or an int
Str(v) == v.text

ValidationIssue(severity, endpoint, method, message, expected, actual) ==
    [severity |-> severity, endpoint |-> endpoint, method |-> method,
     message |-> message, expected |-> expected, actual |-> actual]

\* base_url.rstrip('/')
BaseUrl == "http://api.test"

\* the keys of a path item that validate_all_endpoints visits
HttpMethods == {"GET", "POST", "PUT", "PATCH", "DELETE"}

\* A path as the pieces str.replace works on: literal text and the
\* {name} placeholders.
PathTokens(path) ==
    CASE path = "/users/{id}" -> <<"/users/", "{id}">>
      [] path = "/users/{id}/posts/{post}" ->
            <<"/users/", "{id}", "/posts/", "{post}">>
      [] path = "/users/{id}/friends/{id}" ->
            <<"/users/", "{id}", "/friends/", "{id}">>
      [] OTHER -> <<path>>

RECURSIVE Join(_)
Join(tokens) ==
    IF Len(tokens) = 0 THEN "" ELSE Head(tokens) \o Join(Tail(tokens))

\* str.replace with a count of 1: the first occurrence only
Replace_FirstOnly(tokens, param_name, value) ==
    [i \in 1..Len(tokens) |->
        IF /\ tokens[i] = "{" \o param_name \o "}"
           /\ \A j \in 1..(i - 1) : tokens[j] # tokens[i]
        THEN value ELSE tokens[i]]

\* test_path.replace(f"{{{param_name}}}", str(example_value))
Replace(tokens, param_name, value) ==
    [i \in 1..Len(tokens) |->
        IF tokens[i] = "{" \o param_name \o "}" THEN value ELSE tokens[i]]

RECURSIVE PrepareTokens(_, _)
PrepareTokens(tokens, parameters) ==
    IF Len(parameters) = 0 THEN tokens
    ELSE LET param == Head(parameters) IN
         PrepareTokens(
            IF param.in = "path"
            THEN Replace(tokens, param.name,
                         Str(OrElse(param.example, PyStr("1"))))
            ELSE tokens,
            Tail(parameters))

_prepare_test_path(path, spec_details) ==
    Join(PrepareTokens(PathTokens(path), OrElse(spec_details.parameters, <<>>)))

\* str(response.status_code)
StatusText(status_code) ==
    CASE status_code = 200 -> "200"
      [] status_code = 201 -> "201"
      [] status_code = 404 -> "404"
      [] status_code = 500 -> "500"

\* _validate_status_code without the test for a 'default' response
_validate_status_code_NoDefault(path, method, response, spec_details) ==
    LET responses == OrElse(spec_details.responses, EmptyDict)
        status_code == StatusText(response.status_code)
    IN  IF ~HasKey(responses, status_code)
        THEN <<ValidationIssue("warning", path, method,
                  "Unexpected status code: " \o status_code,
                  Some(PyList(Keys(responses))), Some(PyStr(status_code)))>>
        ELSE <<>>

_validate_status_code(path, method, response, spec_details) ==
    LET responses == OrElse(spec_details.responses, EmptyDict)
        status_code == StatusText(response.status_code)
    IN  IF ~HasKey(responses, status_code) /\ ~HasKey(responses, "default")
        THEN <<ValidationIssue("warning", path, method,
                  "Unexpected status code: " \o status_code,
                  Some(PyList(Keys(responses))), Some(PyStr(status_code)))>>
        ELSE <<>>

\* _validate_schema_structure going on to the required names after a body
\* that is not a mapping
_validate_schema_structure_NoReturn(path, method, data, schema) ==
    IF schema.type = Some("object")
    THEN LET required == OrElse(schema.required, <<>>) IN
         (IF data.type # "dict"
          THEN <<ValidationIssue("error", path, method,
                    "Response should be an object",
                    Some(PyStr("object")), Some(PyStr(data.type)))>>
          ELSE <<>>)
         \o Flatten([i \in 1..Len(required) |->
                IF required[i] \in Range(data.keys) THEN <<>>
                ELSE <<ValidationIssue("error", path, method,
                          "Missing required property: " \o required[i],
                          Some(PyList(required)), Some(PyList(data.keys)))>>])
    ELSE IF schema.type = Some("array") /\ data.type # "list"
    THEN <<ValidationIssue("error", path, method,
              "Response should be an array",
              Some(PyStr("array")), Some(PyStr(data.type)))>>
    ELSE <<>>

\* _validate_schema_structure leaving the loop over the required names at
\* the first name that is missing
_validate_schema_structure_FirstMissing(path, method, data, schema) ==
    IF schema.type = Some("object") /\ data.type = "dict"
    THEN LET required == OrElse(schema.required, <<>>)
             missing == {i \in 1..Len(required) :
                            required[i] \notin Range(data.keys)}
         IN  IF missing = {} THEN <<>>
             ELSE <<ValidationIssue("error", path, method,
                       "Missing required property: "
                           \o required[CHOOSE i \in missing :
                                           \A j \in missing : i <= j],
                       Some(PyList(required)), Some(PyList(data.keys)))>>
    ELSE <<>>

_validate_schema_structure(path, method, data, schema) ==
    IF schema.type = Some("object")
    THEN IF data.type # "dict"
         THEN <<ValidationIssue("error", path, method,
                   "Response should be an object",
                   Some(PyStr("object")), Some(PyStr(data.type)))>>
         ELSE LET required == OrElse(schema.required, <<>>) IN
              Flatten([i \in 1..Len(required) |->
                 IF required[i] \in Range(data.keys) THEN <<>>
                 ELSE <<ValidationIssue("error", path, method,
                           "Missing required property: " \o required[i],
                           Some(PyList(required)), Some(PyList(data.keys)))>>])
    ELSE IF schema.type = Some("array")
    THEN IF data.type # "list"
         THEN <<ValidationIssue("error", path, method,
                   "Response should be an array",
                   Some(PyStr("array")), Some(PyStr(data.type)))>>
         ELSE <<>>
    ELSE <<>>

\* if schema: an empty schema dict is falsy
SchemaDeclared(schema) == IsSome(schema) /\ schema[1] # Schema(None, None)

_validate_response_schema(path, method, response, spec_details) ==
    IF ~response.body.json
    THEN <<ValidationIssue("error", path, method,
              "Response is not valid JSON", None, None)>>
    ELSE LET responses == OrElse(spec_details.responses, EmptyDict)
             status_code == StatusText(response.status_code)
         IN  IF /\ HasKey(responses, status_code)
                /\ SchemaDeclared(Get(responses, status_code).schema)
             THEN _validate_schema_structure(path, method, response.body,
                      Get(responses, status_code).schema[1])
             ELSE <<>>

\* _validate_endpoint validating the body whatever the status is
_validate_endpoint_AnyStatus(path, method, spec_details, outcome) ==
    IF outcome.failed
    THEN <<ValidationIssue("error", path, method,
              "Failed to reach endpoint: " \o outcome.error, None, None)>>
    ELSE _validate_status_code(path, method, outcome, spec_details)
            \o _validate_response_schema(path, method, outcome, spec_details)

\* _validate_endpoint recording nothing when the request raises
_validate_endpoint_SilentFailure(path, method, spec_details, outcome) ==
    IF outcome.failed THEN <<>>
    ELSE _validate_status_code(path, method, outcome, spec_details)
            \o (IF outcome.status_code < 400
                THEN _validate_response_schema(path, method, outcome,
                                               spec_details)
                ELSE <<>>)

\* _validate_endpoint: the issues one request adds; outcome is what
\* requests.request did, a response or a RequestException
_validate_endpoint(path, method, spec_details, outcome) ==
    IF outcome.failed
    THEN <<ValidationIssue("error", path, method,
              "Failed to reach endpoint: " \o outcome.error, None, None)>>
    ELSE _validate_status_code(path, method, outcome, spec_details)
            \o (IF outcome.status_code < 400
                THEN _validate_response_schema(path, method, outcome,
                                               spec_details)
                ELSE <<>>)

\* what the loops of validate_all_endpoints visit, in order
Visits(paths) ==
    Flatten([i \in 1..Len(paths) |->
        [j \in 1..Len(paths[i][2]) |->
            [path |-> paths[i][1], method |-> paths[i][2][j][1],
             details |-> paths[i][2][j][2]]]])

NoPathsIssue ==
    ValidationIssue("critical", "N/A", "N/A",
        "No paths defined in OpenAPI specification", None, None)

\* get_summary()[severity]
Count(severity) ==
    Cardinality({i \in 1..Len(issues) : issues[i].severity = severity})

----------------------------------------------------------------------------
(* The documents and responses the validator is run on *)

Body(json, type, keys) == [json |-> json, type |-> type, keys |-> keys]
Bodies ==
    {Body(FALSE, "str", <<>>), Body(TRUE, "list", <<>>),
     Body(TRUE, "str", <<>>), Body(TRUE, "dict", <<>>),
     Body(TRUE, "dict", <<"id">>), Body(TRUE, "dict", <<"id", "name">>)}
StatusSeen == {200, 404}
Outcomes ==
    {[failed |-> TRUE, error |-> "Connection refused", status_code |-> 0,
      body |-> Body(FALSE, "str", <<>>)]}
        \cup {[failed |-> FALSE, error |-> "", status_code |-> c, body |-> b] :
                c \in StatusSeen, b \in Bodies}

\* operations that vary in what the validator reads
ValParams ==
    {None,
     Some(<<Param("id", "path", Some(TRUE), Some(PyInt("42")))>>),
     Some(<<Param("id", "path", Some(TRUE), None)>>),
     Some(<<Param("id", "query", Some(TRUE), Some(PyStr("42")))>>)}
ValSchemas ==
    {None, Some(Schema(None, None)), Some(SchemaIdName),
     Some(Schema(Some("object"), None)), Some(Schema(Some("array"), None)),
     Some(Schema(Some("string"), None))}
ValResponses ==
    {None}
        \cup {Some(<< <<"200", Response(s)>> >>) : s \in ValSchemas}
        \cup {Some(<< <<"404", Response(s)>> >>) : s \in ValSchemas}
        \cup {Some(<< <<"default", Response(None)>> >>)}
ValOps == {Operation(ps, r) : ps \in ValParams, r \in ValResponses}

\* paths without a placeholder, with one, with one twice and with two
ValPaths ==
    {"/users", "/users/{id}", "/users/{id}/friends/{id}",
     "/users/{id}/posts/{post}"}

\* documents that vary in their paths and the keys of the path items
ValItemKeys == {"get", "post", "head"}
ValItems == OrderedDicts(ValItemKeys, {OpGet})
ValDocs ==
    {Document(None, None)}
        \cup {Document(None, Some(p)) :
                p \in OrderedDicts({"/users", "/items"},
                                   {i \in ValItems : Len(i) <= 2})}
        \cup {Document(None, Some(<< <<path, << <<"get", op>> >> >> >>)) :
                path \in ValPaths, op \in ValOps}

----------------------------------------------------------------------------
(* ValSpec: one validator, validate_all_endpoints step by step *)

ValInit ==
    /\ spec \in ValDocs
    /\ issues = <<>> /\ todo = <<>> /\ requests = <<>> /\ attempt = None
    /\ pc = "idle"
    /\ DriftIdle /\ DiffIdle /\ CliIdle

\* validate_all_endpoints up to its loop: self.issues = [] and the test for
\* the 'paths' key
ValidateAllEndpoints ==
    /\ pc \in {"idle", "done"}
    /\ requests' = <<>> /\ attempt' = None
    /\ IF IsNone(spec.paths)
       THEN issues' = <<NoPathsIssue>> /\ todo' = <<>> /\ pc' = "done"
       ELSE issues' = <<>> /\ todo' = Visits(spec.paths[1]) /\ pc' = "loop"
    /\ UNCHANGED spec
    /\ UNCHANGED driftVars /\ UNCHANGED diffVars
    /\ UNCHANGED cliVars

\* one turn of the loop on a key that is an HTTP method: _validate_endpoint
\* sends one request and appends the issues it finds
ValidateEndpoint ==
    /\ pc = "loop" /\ Len(todo) > 0
    /\ Upper(Head(todo).method) \in HttpMethods
    /\ \E outcome \in Outcomes :
          LET path == Head(todo).path
              method == Upper(Head(todo).method)
              spec_details == Head(todo).details
              added == _validate_endpoint(path, method, spec_details, outcome)
          IN  /\ issues' = issues \o added
              /\ requests' = Append(requests,
                    [method |-> method,
                     url |-> BaseUrl \o _prepare_test_path(path, spec_details),
                     failed |-> outcome.failed])
              /\ attempt' = Some([path |-> path, method |-> method,
                                  spec_details |-> spec_details,
                                  outcome |-> outcome, added |-> added])
    /\ todo' = Tail(todo)
    /\ UNCHANGED <<spec, pc>>
    /\ UNCHANGED driftVars /\ UNCHANGED diffVars
    /\ UNCHANGED cliVars

\* the loop without the test on the key: a request for any key
SkipKey_SendsRequest ==
    /\ pc = "loop" /\ Len(todo) > 0
    /\ Upper(Head(todo).method) \notin HttpMethods
    /\ requests' = Append(requests,
          [method |-> Upper(Head(todo).method),
           url |-> BaseUrl \o _prepare_test_path(Head(todo).path,
                                                 Head(todo).details),
           failed |-> TRUE])
    /\ todo' = Tail(todo)
    /\ UNCHANGED <<spec, issues, attempt, pc>>
    /\ UNCHANGED driftVars /\ UNCHANGED diffVars
    /\ UNCHANGED cliVars

\* one turn of the loop on any other key of the path item
SkipKey ==
    /\ pc = "loop" /\ Len(todo) > 0
    /\ Upper(Head(todo).method) \notin HttpMethods
    /\ todo' = Tail(todo)
    /\ UNCHANGED <<spec, issues, requests, attempt, pc>>
    /\ UNCHANGED driftVars /\ UNCHANGED diffVars
    /\ UNCHANGED cliVars

\* return self.issues
ReturnIssues ==
    /\ pc = "loop" /\ Len(todo) = 0
    /\ pc' = "done"
    /\ UNCHANGED <<spec, issues, todo, requests, attempt>>
    /\ UNCHANGED driftVars /\ UNCHANGED diffVars
    /\ UNCHANGED cliVars

ValNext == ValidateAllEndpoints \/ ValidateEndpoint \/ SkipKey \/ ReturnIssues

ValSpec == ValInit /\ [][ValNext]_vars

----------------------------------------------------------------------------
(* main.py: the commands and the exit code *)

\* validate_all_endpoints from its first line to its return; outcomes holds
\* what requests.request does for each request in turn
RECURSIVE RunVisits(_, _)
RunVisits(visits, outcomes) ==
    IF Len(visits) = 0 THEN <<>>
    ELSE IF Upper(Head(visits).method) \in HttpMethods
    THEN _validate_endpoint(Head(visits).path, Upper(Head(visits).method),
                            Head(visits).details, Head(outcomes))
            \o RunVisits(Tail(visits), Tail(outcomes))
    ELSE RunVisits(Tail(visits), outcomes)

validate_all_endpoints(spec_data, outcomes) ==
    IF IsNone(spec_data.paths) THEN <<NoPathsIssue>>
    ELSE RunVisits(Visits(spec_data.paths[1]), outcomes)

\* the number of requests a run on spec_data sends
RequestsOf(spec_data) ==
    Len(SelectSeq(Visits(OrElse(spec_data.paths, EmptyDict)),
                  LAMBDA visit : Upper(visit.method) \in HttpMethods))

\* get_summary() for a list of issues
get_summary(issue_list) ==
    [severity \in {"critical", "error", "warning", "info"} |->
        Cardinality({i \in 1..Len(issue_list) :
                        issue_list[i].severity = severity})]

\* AIValidationAgent.analyze_validation_issues: the text of the model, or
\* the text built from the exception of the call
analyze_validation_issues(issue_list, llm) ==
    IF Len(issue_list) = 0
    THEN "No validation issues found. API is in sync with specification."
    ELSE IF llm = "ok" THEN "response.choices[0].message.content"
    ELSE "AI analysis failed: " \o llm
            \o "\n\nPlease review validation issues manually."

\* validate_command: what it prints as the analysis and what it returns
validate_command(issue_list, ai_analysis, api_key, llm) ==
    [analysis  |-> IF ai_analysis /\ api_key
                   THEN Some(analyze_validation_issues(issue_list, llm))
                   ELSE None,
     exit_code |-> IF \/ get_summary(issue_list)["critical"] > 0
                      \/ get_summary(issue_list)["error"] > 0
                   THEN 1 ELSE 0]

\* generate_report_command: the analysis in the report and what it returns
generate_report_command(issue_list, api_key, llm) ==
    IF api_key
    THEN [analysis  |-> Some(analyze_validation_issues(issue_list, llm)),
          exit_code |-> 0]
    ELSE [analysis |-> None, exit_code |-> 1]

\* the try of main(): the value of the command, 130 for KeyboardInterrupt, 1
\* for any other exception
main(fault, exit_code) ==
    IF fault = "KeyboardInterrupt" THEN 130
    ELSE IF fault = "Exception" THEN 1
    ELSE exit_code

\* what the call to the language model does
LlmOutcomes == {"ok", "network error", "quota exceeded"}
\* what reaches main() from the command: nothing, the interrupt of the user,
\* or an exception such as a specification file that cannot be read
Faults == {"none", "KeyboardInterrupt", "Exception"}
\* the documents the commands are run on
CliDocs ==
    {Document(None, None), Document(None, Some(<< <<"/users", ItemGet>> >>))}

----------------------------------------------------------------------------
(* CliSpec: main() run again and again *)

CliInit == DriftIdle /\ DiffIdle /\ ValIdle /\ CliIdle

\* main() without a command: the help text and 1
NoCommand ==
    /\ cli' = [NoRun EXCEPT !.returned = TRUE, !.exit_code = 1]
    /\ UNCHANGED driftVars /\ UNCHANGED diffVars /\ UNCHANGED valVars

\* main() with validate: a new validator, one run of it, the analysis when
\* it is asked for and the key is set
ValidateCommand ==
    /\ \E spec_data \in CliDocs, ai_analysis \in BOOLEAN, api_key \in BOOLEAN,
          llm \in LlmOutcomes, fault \in Faults :
          \E outcomes \in [1..RequestsOf(spec_data) -> Outcomes] :
             LET issue_list == IF fault = "none"
                               THEN validate_all_endpoints(spec_data, outcomes)
                               ELSE <<>>
                 r == validate_command(issue_list, ai_analysis, api_key, llm)
             IN  cli' = [returned |-> TRUE, command |-> Some("validate"),
                         ai_analysis |-> ai_analysis, api_key |-> api_key,
                         llm |-> llm, fault |-> fault, issues |-> issue_list,
                         analysis |-> IF fault = "none" THEN r.analysis
                                      ELSE None,
                         exit_code |-> main(fault, r.exit_code)]
    /\ UNCHANGED driftVars /\ UNCHANGED diffVars /\ UNCHANGED valVars

\* main() with generate-report: a new validator, one run of it, the report
\* when the key is set
GenerateReportCommand ==
    /\ \E spec_data \in CliDocs, api_key \in BOOLEAN, llm \in LlmOutcomes,
          fault \in Faults :
          \E outcomes \in [1..RequestsOf(spec_data) -> Outcomes] :
             LET issue_list == IF fault = "none"
                               THEN validate_all_endpoints(spec_data, outcomes)
                               ELSE <<>>
                 r == generate_report_command(issue_list, api_key, llm)
             IN  cli' = [returned |-> TRUE,
                         command |-> Some("generate-report"),
                         ai_analysis |-> FALSE, api_key |-> api_key,
                         llm |-> llm, fault |-> fault, issues |-> issue_list,
                         analysis |-> IF fault = "none" THEN r.analysis
                                      ELSE None,
                         exit_code |-> main(fault, r.exit_code)]
    /\ UNCHANGED driftVars /\ UNCHANGED diffVars /\ UNCHANGED valVars

\* main() with detect-drift: a new detector on the history directory and
\* detect_drift on the document; the command returns 0 whatever the report
DetectDriftCommand ==
    /\ \E current_spec \in CliDocs, fault \in Faults,
          order \in Perms(MethodNames) :
          LET loaded == _load_history(file)
              r == capture_snapshot(loaded, file, clock, current_spec)
          IN  /\ cli' = [NoRun EXCEPT !.returned = TRUE,
                                      !.command = Some("detect-drift"),
                                      !.fault = fault,
                                      !.exit_code = main(fault, 0)]
              /\ IF fault # "none"
                 THEN UNCHANGED driftVars
                 ELSE IF Len(loaded) = 0
                 THEN /\ snapshots' = loaded
                      /\ last' = [op |-> "detect_drift",
                                  arg |-> Some(current_spec),
                                  before |-> loaded, ret |-> None,
                                  report |-> Some(NoDrift(
                                      "No previous snapshots to compare against"))]
                      /\ UNCHANGED <<file, clock, changelog>>
                 ELSE /\ clock < MaxClock
                      /\ snapshots' = r.snapshots
                      /\ file' = r.file
                      /\ clock' = clock + 1
                      /\ last' = [op |-> "detect_drift",
                                  arg |-> Some(current_spec),
                                  before |-> loaded, ret |-> None,
                                  report |-> Some(DriftOf(loaded[Len(loaded)],
                                                r.ret, current_spec, order))]
    /\ UNCHANGED changelog
    /\ UNCHANGED diffVars /\ UNCHANGED valVars

CliNext ==
    NoCommand \/ ValidateCommand \/ GenerateReportCommand
        \/ DetectDriftCommand

CliSpec == CliInit /\ [][CliNext]_vars

----------------------------------------------------------------------------
(* Properties *)

\* number of entries of a sequence that satisfy P
CountIn(seq, P(_)) == Cardinality({i \in 1..Len(seq) : P(seq[i])})

\* C1: for a document whose paths mapping is present but empty,
\* validate_all_endpoints returns exactly one issue, of severity critical,
\* and issues no HTTP request.
C1_EmptyPathsOneCritical ==
    (pc = "done" /\ spec.paths = Some(EmptyDict)) =>
        /\ Len(issues) = 1
        /\ issues[1].severity = "critical"
        /\ requests = <<>>

\* C2: no two adjacent snapshots of the history have the same spec_hash.
C2_NoAdjacentDuplicates ==
    \A i \in 1..(Len(snapshots) - 1) :
        snapshots[i].spec_hash # snapshots[i + 1].spec_hash

\* a call that found the fingerprint of its argument at the end of a history
\* of two or more snapshots and appended nothing
C2_Witness ==
    /\ Len(snapshots) >= 2
    /\ last.op \in {"capture_snapshot", "detect_drift"}
    /\ last.before = snapshots
    /\ SpecHash(last.arg[1]) = snapshots[Len(snapshots)].spec_hash
    /\ last.arg[1] # snapshots[Len(snapshots)].spec_data

\* a capture_snapshot call that directly follows a capture_snapshot call with
\* the same argument on the same detector
RepeatedCapture ==
    /\ last.op = "capture_snapshot"
    /\ last'.op = "capture_snapshot"
    /\ last'.arg = last.arg
    /\ clock' = clock + 1

\* C3 as stated: two capture_snapshot calls in a row with identical content
\* append exactly one snapshot; the second leaves the history and the file
\* unchanged and returns the stored last snapshot.
C3_ExactlyOneAppended ==
    [][RepeatedCapture =>
          /\ Len(snapshots') = Len(last.before) + 1
          /\ snapshots' = snapshots
          /\ file' = file
          /\ last'.ret = Some(snapshots[Len(snapshots)])]_vars

\* C3 amended: the two calls append at most one snapshot, exactly one when
\* the history was empty or ended with another fingerprint before the first
\* call and none otherwise; the second call leaves the history and the file
\* unchanged and returns the stored last snapshot, with the timestamp the
\* first call returned.
C3_CaptureIdempotent ==
    [][RepeatedCapture =>
          /\ Len(snapshots') = Len(last.before) +
                (IF IsNewSnapshot(last.before, SpecHash(last.arg[1]))
                 THEN 1 ELSE 0)
          /\ snapshots' = snapshots
          /\ file' = file
          /\ last'.ret = Some(snapshots[Len(snapshots)])
          /\ last'.ret[1].timestamp = last.ret[1].timestamp
          /\ last'.ret[1].timestamp < clock]_vars

\* the state after capture_snapshot was called twice on an empty store with
\* the same document: one snapshot, stored by the first call (at time 0) and
\* returned by the second (at time 1)
C3_Witness ==
    /\ clock = 2
    /\ Len(snapshots) = 1
    /\ last.op = "capture_snapshot"
    /\ last.before = snapshots
    /\ last.arg = Some(snapshots[1].spec_data)
    /\ snapshots[1].timestamp = 0
    /\ last.ret = Some(snapshots[1])
    /\ file = _save_history(snapshots)

\* C4: a detect_drift call on a store with no snapshot reports
\* has_drift = false and leaves a snapshot of its argument in the history.
C4_FirstRunCaptures ==
    (last.op = "detect_drift" /\ Len(last.before) = 0) =>
        /\ last.report[1].has_drift = FALSE
        /\ Len(snapshots) = 1
        /\ snapshots[1].spec_data = last.arg[1]

\* C5: on a non-empty store detect_drift(s) reports has_drift = false exactly
\* when the fingerprint of s is that of the snapshot that was last before the
\* call; when it reports true the history has grown by one snapshot with the
\* fingerprint of s and the ChangeSet is the diff of the prior last
\* snapshot's document against s; when it reports false the history is
\* unchanged.
C5_DetectDrift ==
    (last.op = "detect_drift" /\ Len(last.before) > 0) =>
        LET prior == last.before[Len(last.before)]
            s == last.arg[1]
            report == last.report[1]
        IN  /\ report.has_drift = (SpecHash(s) # prior.spec_hash)
            /\ report.has_drift =>
                  /\ Len(snapshots) = Len(last.before) + 1
                  /\ SubSeq(snapshots, 1, Len(last.before)) = last.before
                  /\ snapshots[Len(snapshots)].spec_hash = SpecHash(s)
                  /\ snapshots[Len(snapshots)].spec_data = s
                  /\ \E order \in Perms(MethodNames) :
                        report.changes =
                            Some(_analyze_changes(prior.spec_data, s, order))
            /\ ~report.has_drift =>
                  /\ snapshots = last.before
                  /\ report.changes = None

\* a detect_drift call on a non-empty store that reported drift with
\* something in its ChangeSet
C5_Witness ==
    /\ last.op = "detect_drift"
    /\ Len(last.before) > 0
    /\ last.report[1].has_drift
    /\ Len(last.report[1].changes[1].added_endpoints) > 0
    /\ Len(last.report[1].changes[1].breaking_changes) > 0

\* the paths of old that new does not have, with their path items
RemovedPaths ==
    LET old_paths == OrElse(old_spec.paths, EmptyDict)
        new_paths == OrElse(new_spec.paths, EmptyDict)
    IN  {old_paths[i] : i \in {j \in 1..Len(old_paths) :
                                 ~HasKey(new_paths, old_paths[j][1])}}

IsEndpointRemoved(bc, endpoint) ==
    /\ bc.type = "endpoint_removed"
    /\ bc.severity = "critical"
    /\ bc.endpoint = endpoint

\* every method of a removed path is a removed endpoint and an
\* endpoint_removed breaking change of severity critical
EveryMethodOfRemovedPathListed ==
    \A kv \in RemovedPaths : \A j \in 1..Len(kv[2]) :
        LET endpoint == Endpoint(kv[2][j][1], kv[1]) IN
        /\ endpoint \in Range(changes[1].removed_endpoints)
        /\ \E bc \in Range(changes[1].breaking_changes) :
              IsEndpointRemoved(bc, endpoint)

\* C6 as stated: when some path of old is absent from new, the ChangeSet
\* has at least one endpoint_removed breaking change of severity critical
\* and lists every method of the removed path.
C6_RemovedPathAlwaysBreaking ==
    (IsSome(changes) /\ RemovedPaths # {}) =>
        /\ \E bc \in Range(changes[1].breaking_changes) :
              bc.type = "endpoint_removed" /\ bc.severity = "critical"
        /\ EveryMethodOfRemovedPathListed

\* C6 amended: when some path of old that has at least one method is absent
\* from new, the ChangeSet has at least one endpoint_removed breaking change
\* of severity critical; every method of every removed path is listed as a
\* removed endpoint and as an endpoint_removed breaking change.
C6_RemovedMethodsBreaking ==
    IsSome(changes) =>
        /\ (\E kv \in RemovedPaths : Len(kv[2]) > 0) =>
              \E bc \in Range(changes[1].breaking_changes) :
                  bc.type = "endpoint_removed" /\ bc.severity = "critical"
        /\ EveryMethodOfRemovedPathListed

\* a diff in which a path with two methods was removed
C6_Witness ==
    /\ IsSome(changes)
    /\ \E kv \in RemovedPaths : Len(kv[2]) = 2
    /\ Len(changes[1].removed_endpoints) >= 2

\* old and new differ only by paths that new has and old does not
OnlyAddedPaths(old, new) ==
    LET old_paths == OrElse(old.paths, EmptyDict)
        new_paths == OrElse(new.paths, EmptyDict)
    IN  /\ old.info_version = new.info_version
        /\ \E i \in 1..Len(new_paths) : ~HasKey(old_paths, new_paths[i][1])
        /\ \A i \in 1..Len(old_paths) :
              /\ HasKey(new_paths, old_paths[i][1])
              /\ CanonItem(Get(new_paths, old_paths[i][1]))
                    = CanonItem(old_paths[i][2])

\* C7: when the new document differs from the last snapshot only by added
\* paths, detect_drift reports has_drift = true, added_endpoints has exactly
\* one entry per method of each path that only new has, removed and modified
\* endpoints are empty and there is no breaking change.
C7_OnlyAddedPaths ==
    (/\ last.op = "detect_drift"
     /\ Len(last.before) > 0
     /\ OnlyAddedPaths(last.before[Len(last.before)].spec_data, last.arg[1]))
    => LET old == last.before[Len(last.before)].spec_data
           new == last.arg[1]
           old_paths == OrElse(old.paths, EmptyDict)
           new_paths == OrElse(new.paths, EmptyDict)
           report == last.report[1]
       IN  /\ report.has_drift
           /\ \A i \in 1..Len(new_paths) :
                 ~HasKey(old_paths, new_paths[i][1]) =>
                    \A j \in 1..Len(new_paths[i][2]) :
                       CountIn(report.changes[1].added_endpoints,
                          LAMBDA e : e = Endpoint(new_paths[i][2][j][1],
                                                  new_paths[i][1])) = 1
           /\ Len(report.changes[1].added_endpoints) =
                 Sum([i \in 1..Len(new_paths) |->
                        IF HasKey(old_paths, new_paths[i][1]) THEN 0
                        ELSE Len(new_paths[i][2])])
           /\ report.changes[1].removed_endpoints = <<>>
           /\ report.changes[1].modified_endpoints = <<>>
           /\ report.changes[1].breaking_changes = <<>>

\* detect_drift with a document that adds the path /items to a snapshot that
\* has the path /users
C7_Witness ==
    /\ last.op = "detect_drift"
    /\ Len(last.before) > 0
    /\ OnlyAddedPaths(last.before[Len(last.before)].spec_data, last.arg[1])
    /\ HasKey(OrElse(last.before[Len(last.before)].spec_data.paths, EmptyDict),
              "/users")
    /\ last.report[1].changes[1].added_endpoints = <<"GET /items">>

\* the (path, method) pairs present in both documents of the diff, with the
\* two operation objects
CommonOperations ==
    LET old_paths == OrElse(old_spec.paths, EmptyDict)
        new_paths == OrElse(new_spec.paths, EmptyDict)
    IN  UNION {LET path == old_paths[i][1]
                   old_item == old_paths[i][2]
                   new_item == Get(new_paths, path)
               IN  {[path |-> path, method |-> old_item[j][1],
                     old |-> old_item[j][2],
                     new |-> Get(new_item, old_item[j][1])] :
                       j \in {k \in 1..Len(old_item) :
                                HasKey(new_item, old_item[k][1])}} :
               i \in {k \in 1..Len(old_paths) :
                        HasKey(new_paths, old_paths[k][1])}}

\* the status codes both operations declare with unequal JSON schemas
ChangedCodes(old_op, new_op) ==
    LET old_responses == OrElse(old_op.responses, EmptyDict)
        new_responses == OrElse(new_op.responses, EmptyDict)
    IN  {code \in Range(Keys(old_responses)) \cap Range(Keys(new_responses)) :
            Get(old_responses, code).schema # Get(new_responses, code).schema}

\* C8: for a (method, path) in both documents with identical parameters
\* whose JSON response schema differs for a status code declared in both,
\* the endpoint is listed as modified, there is a response_schema_changed
\* breaking change of severity warning for that status code, and no
\* breaking change of severity critical for that endpoint.
C8_SchemaChangeIsWarning ==
    IsSome(changes) =>
        \A c \in CommonOperations :
            (c.old.parameters = c.new.parameters
                /\ ChangedCodes(c.old, c.new) # {}) =>
            LET endpoint == Endpoint(c.method, c.path) IN
            /\ endpoint \in Range(changes[1].modified_endpoints)
            /\ \A code \in ChangedCodes(c.old, c.new) :
                  \E bc \in Range(changes[1].breaking_changes) :
                      /\ bc.type = "response_schema_changed"
                      /\ bc.endpoint = endpoint
                      /\ bc.status_code = Some(code)
                      /\ bc.severity = "warning"
            /\ \A bc \in Range(changes[1].breaking_changes) :
                  bc.endpoint = endpoint => bc.severity # "critical"

\* a diff of two operations with the same parameters whose schemas differ
\* for both status codes
C8_Witness ==
    /\ IsSome(changes)
    /\ \E c \in CommonOperations :
          /\ c.old.parameters = c.new.parameters
          /\ IsSome(c.old.parameters)
          /\ ChangedCodes(c.old, c.new) = StatusCodes
    /\ Len(changes[1].breaking_changes) = 2

\* C9: for a (method, path) in both documents with unequal operations, a
\* parameter name that old declares required and new does not declare has
\* exactly one required_parameter_removed breaking change of severity
\* critical; every other parameter name has none.
C9_RequiredParameterRemoved ==
    IsSome(changes) =>
        \A c \in CommonOperations :
            OpDiffers(c.old, c.new) =>
            LET old_params == OrElse(c.old.parameters, <<>>)
                new_params == OrElse(c.new.parameters, <<>>)
                lost(name) ==
                    /\ \E p \in Range(old_params) :
                          p.name = name /\ OrElse(p.required, FALSE)
                    /\ \A p \in Range(new_params) : p.name # name
            IN  \A name \in {p.name : p \in Range(old_params)} :
                  /\ CountIn(changes[1].breaking_changes,
                        LAMBDA bc :
                          /\ bc.type = "required_parameter_removed"
                          /\ bc.endpoint = Endpoint(c.method, c.path)
                          /\ bc.parameter = Some(name))
                       = (IF lost(name) THEN 1 ELSE 0)
                  /\ \A bc \in Range(changes[1].breaking_changes) :
                        bc.type = "required_parameter_removed"
                            => bc.severity = "critical"

\* the methods that a path present in both documents lost
LostMethods ==
    LET old_paths == OrElse(old_spec.paths, EmptyDict)
        new_paths == OrElse(new_spec.paths, EmptyDict)
    IN  UNION {{<<old_paths[i][1], m>> :
                  m \in Range(Keys(old_paths[i][2]))
                        \ Range(Keys(Get(new_paths, old_paths[i][1])))} :
               i \in {k \in 1..Len(old_paths) :
                        HasKey(new_paths, old_paths[k][1])}}

\* C10: for a path in both documents, every method key that the old path
\* item has and the new one does not has exactly one method_removed breaking
\* change, of severity critical, for "METHOD path".
C10_MethodRemoved ==
    IsSome(changes) =>
        \A pm \in LostMethods :
            /\ CountIn(changes[1].breaking_changes,
                  LAMBDA bc : /\ bc.type = "method_removed"
                              /\ bc.endpoint = Endpoint(pm[2], pm[1])) = 1
            /\ \A bc \in Range(changes[1].breaking_changes) :
                  (bc.type = "method_removed"
                      /\ bc.endpoint = Endpoint(pm[2], pm[1]))
                  => bc.severity = "critical"

\* a diff in which one path lost both its methods and still exists
C10_Witness ==
    /\ IsSome(changes)
    /\ \E pm1 \in LostMethods, pm2 \in LostMethods :
          pm1[1] = pm2[1] /\ pm1[2] # pm2[2]
    /\ changes[1].removed_endpoints = <<>>

----------------------------------------------------------------------------
(* api_validator.py: one request *)

\* the last request got a response
Answered == IsSome(attempt) /\ ~attempt[1].outcome.failed

\* the schema the document declares for the status of the last response,
\* None when it declares none
DeclaredSchema ==
    LET responses == OrElse(attempt[1].spec_details.responses, EmptyDict)
        status_code == StatusText(attempt[1].outcome.status_code)
    IN  IF ~HasKey(responses, status_code) THEN None
        ELSE IF Get(responses, status_code).schema = Some(Schema(None, None))
        THEN None
        ELSE Get(responses, status_code).schema

\* the last response has a status below 400 and a JSON mapping as its body,
\* and the schema declared for its status has type object
ObjectAgainstObjectSchema ==
    /\ Answered
    /\ attempt[1].outcome.status_code < 400
    /\ attempt[1].outcome.body.json
    /\ attempt[1].outcome.body.type = "dict"
    /\ IsSome(DeclaredSchema)
    /\ DeclaredSchema[1].type = Some("object")

\* C11: when the status is below 400, the declared schema has type object
\* and the body is a JSON mapping, the request adds exactly one error issue
\* for every name of schema.required that is not a key of the body and none
\* for a name that is; each carries the whole required list as expected and
\* the keys of the body as actual.
C11_OneIssuePerMissingName ==
    ObjectAgainstObjectSchema =>
        LET required == OrElse(DeclaredSchema[1].required, <<>>)
            keys == attempt[1].outcome.body.keys
            added == attempt[1].added
            Cites(name) ==
                {i \in 1..Len(added) :
                    added[i].message = "Missing required property: " \o name}
        IN  /\ \A name \in Range(required) :
                   Cardinality(Cites(name)) =
                       IF name \in Range(keys) THEN 0 ELSE 1
            /\ \A i \in 1..Len(added) :
                   /\ \E name \in Range(required) : i \in Cites(name)
                   /\ added[i].severity = "error"
                   /\ added[i].endpoint = attempt[1].path
                   /\ added[i].method = attempt[1].method
                   /\ added[i].expected = Some(PyList(required))
                   /\ added[i].actual = Some(PyList(keys))

\* required is [id, name] and the body is {"id": 1}: one issue, citing name
C11_Witness ==
    /\ ObjectAgainstObjectSchema
    /\ DeclaredSchema[1].required = Some(<<"id", "name">>)
    /\ attempt[1].outcome.body.keys = <<"id">>
    /\ Len(attempt[1].added) = 1
    /\ attempt[1].added[1].message = "Missing required property: name"
    /\ issues = attempt[1].added

\* the responses mapping of the operation of the last request
DeclaredResponses == OrElse(attempt[1].spec_details.responses, EmptyDict)

\* the warnings the last request added, as positions in what it added
Warnings ==
    {i \in 1..Len(attempt[1].added) : attempt[1].added[i].severity = "warning"}

\* C13: a response draws exactly one warning, with the declared status keys
\* as expected and the observed status as actual, when the status written as
\* a string is no key of responses and responses has no default entry, and
\* no warning otherwise; a default entry suppresses it for every status.
C13_WarningIffUndeclared ==
    Answered =>
        LET observed == StatusText(attempt[1].outcome.status_code)
            undeclared ==
                /\ observed \notin Range(Keys(DeclaredResponses))
                /\ "default" \notin Range(Keys(DeclaredResponses))
        IN  /\ Cardinality(Warnings) = IF undeclared THEN 1 ELSE 0
            /\ \A i \in Warnings :
                   /\ attempt[1].added[i].expected =
                          Some(PyList(Keys(DeclaredResponses)))
                   /\ attempt[1].added[i].actual = Some(PyStr(observed))
                   /\ attempt[1].added[i].endpoint = attempt[1].path
                   /\ attempt[1].added[i].method = attempt[1].method

\* a 404 from an operation that declares 200 only: one warning
C13_Witness ==
    /\ Answered
    /\ attempt[1].outcome.status_code = 404
    /\ Keys(DeclaredResponses) = <<"200">>
    /\ Cardinality(Warnings) = 1
    /\ attempt[1].added[1].actual = Some(PyStr("404"))

\* C14: when the document declares no JSON schema for the observed status,
\* the request adds no issue of schema validation whatever the body is, a
\* body that does not parse as JSON included: all it can add is the warning
\* of the status check.
C14_NoSchemaNoIssue ==
    (Answered /\ IsNone(DeclaredSchema)) =>
        \A i \in 1..Len(attempt[1].added) : i \in Warnings

\* the parameters the operation of the last request declares with in = path
PathParameters ==
    SelectSeq(OrElse(attempt[1].spec_details.parameters, <<>>),
              LAMBDA param : param.in = "path")

\* C15: the path requested is the path template in which every occurrence
\* of {name} is replaced, for each parameter declared with in = path, by the
\* string form of its example, or by "1" when it declares none; a
\* placeholder that no path parameter names stays as it is, and so does the
\* path for a parameter declared with another in.
C15_PathMaterialised ==
    IsSome(attempt) =>
        LET tokens == PathTokens(attempt[1].path)
            Named(token) ==
                {i \in 1..Len(PathParameters) :
                    token = "{" \o PathParameters[i].name \o "}"}
            Materialised(token) ==
                IF Named(token) = {} THEN token
                ELSE Str(OrElse(PathParameters[CHOOSE i \in Named(token) :
                                                  TRUE].example,
                                PyStr("1")))
        IN  requests[Len(requests)].url =
                BaseUrl \o Join([i \in 1..Len(tokens) |->
                                    Materialised(tokens[i])])

\* /users/{id}/posts/{post} with id declared in the path without an example
\* and post not declared
C15_Witness ==
    /\ IsSome(attempt)
    /\ attempt[1].path = "/users/{id}/posts/{post}"
    /\ Len(PathParameters) = 1
    /\ PathParameters[1].example = None
    /\ requests[Len(requests)].url = "http://api.test/users/1/posts/{post}"

----------------------------------------------------------------------------
(* api_validator.py: a whole run *)

\* the operations the document declares under GET, POST, PUT, PATCH or
\* DELETE in any letter case, in declaration order
IsHttpOperation(visit) == Upper(visit.method) \in HttpMethods
DeclaredOperations ==
    SelectSeq(Visits(OrElse(spec.paths, EmptyDict)), IsHttpOperation)

\* validate_all_endpoints has returned and every request it made raised
EveryRequestFailed ==
    /\ pc = "done"
    /\ IsSome(spec.paths)
    /\ \A i \in 1..Len(requests) : requests[i].failed

\* C12: when every request fails at the network level, a run over n declared
\* operations returns exactly n issues, the i-th an error for the i-th
\* operation, and no warning or critical issue; every operation was
\* attempted exactly once, a failure neither ending the run nor being
\* retried.
C12_OneErrorPerUnreachable ==
    EveryRequestFailed =>
        /\ Len(requests) = Len(DeclaredOperations)
        /\ Len(issues) = Len(DeclaredOperations)
        /\ \A i \in 1..Len(issues) :
               /\ issues[i].severity = "error"
               /\ issues[i].endpoint = DeclaredOperations[i].path
               /\ issues[i].method = Upper(DeclaredOperations[i].method)
               /\ requests[i].method = Upper(DeclaredOperations[i].method)

\* a run over three operations and a key that is no method, all unreachable
C12_Witness ==
    /\ EveryRequestFailed
    /\ Len(DeclaredOperations) = 3
    /\ Len(Visits(spec.paths[1])) = 4
    /\ Len(issues) = 3

\* the position in the operations ops of the operation an issue is about
OperationOf(ops, issue) ==
    CHOOSE k \in 1..Len(ops) :
        /\ ops[k].path = issue.endpoint
        /\ Upper(ops[k].method) = issue.method

\* C16: a run sends exactly one request for each declared (path, method)
\* whose upper-cased method is GET, POST, PUT, PATCH or DELETE and none for
\* another key, one after the other in declaration order, so that the issues
\* of an operation precede those of every operation declared after it.
C16_OneRequestPerOperationInOrder ==
    (pc \in {"loop", "done"} /\ IsSome(spec.paths)) =>
        LET ops == DeclaredOperations
            about == [i \in 1..Len(issues) |-> OperationOf(ops, issues[i])]
        IN  /\ Len(requests) <= Len(ops)
            /\ pc = "done" => Len(requests) = Len(ops)
            /\ \A i \in 1..Len(requests) :
                   /\ requests[i].method = Upper(ops[i].method)
                   /\ requests[i].url =
                          BaseUrl \o _prepare_test_path(ops[i].path,
                                                        ops[i].details)
            /\ \A i \in 1..(Len(issues) - 1) : about[i] <= about[i + 1]
            /\ \A i \in 1..Len(issues) : about[i] <= Len(requests)

\* a finished run over a path with a get and a head key and a second path:
\* two requests, none for head, issues for both operations in order
C16_Witness ==
    /\ pc = "done"
    /\ IsSome(spec.paths)
    /\ Len(Visits(spec.paths[1])) > Len(DeclaredOperations)
    /\ Len(requests) = 2
    /\ \E i \in 1..Len(requests) : ~requests[i].failed
    /\ \E i, j \in 1..Len(issues) :
          /\ i < j
          /\ OperationOf(DeclaredOperations, issues[i])
                < OperationOf(DeclaredOperations, issues[j])

----------------------------------------------------------------------------
(* drift_detector.py: the fingerprint *)

\* two dicts with the same keys and, key by key, the same values under Same
SameDict(a, b, Same(_, _)) ==
    /\ Range(Keys(a)) = Range(Keys(b))
    /\ \A k \in Range(Keys(a)) : Same(Get(a, k), Get(b, k))

\* two optional dicts: both missing, or both present and the same
SameOptionalDict(a, b, Same(_, _)) ==
    /\ IsNone(a) <=> IsNone(b)
    /\ IsSome(a) /\ IsSome(b) => SameDict(a[1], b[1], Same)

\* two documents that are equal when the order of the keys of their dicts
\* is ignored; lists compare in order
SameOperation(a, b) ==
    /\ a.parameters = b.parameters
    /\ SameOptionalDict(a.responses, b.responses, LAMBDA x, y : x = y)
SamePathItem(a, b) == SameDict(a, b, SameOperation)
SameTree(a, b) ==
    /\ a.info_version = b.info_version
    /\ SameOptionalDict(a.paths, b.paths, SamePathItem)

\* C17: two documents that are equal up to the order of their keys get the
\* same fingerprint and two documents that differ in any field get different
\* fingerprints: this holds between any two stored snapshots, and a capture
\* on a history that is not empty appends nothing exactly when its document
\* equals the last stored one up to key order.
C17_FingerprintDeterminism ==
    /\ \A i, j \in 1..Len(snapshots) :
           SameTree(snapshots[i].spec_data, snapshots[j].spec_data)
               <=> snapshots[i].spec_hash = snapshots[j].spec_hash
    /\ (last.op = "capture_snapshot" /\ Len(last.before) > 0) =>
           LET previous == last.before[Len(last.before)] IN
           /\ SameTree(last.arg[1], previous.spec_data)
                  <=> SpecHash(last.arg[1]) = previous.spec_hash
           /\ SameTree(last.arg[1], previous.spec_data)
                  <=> snapshots = last.before

\* a capture of the last document with its paths in the other order, which
\* appends nothing, on a history whose two snapshots differ in the version
\* only
C17_Witness ==
    /\ last.op = "capture_snapshot"
    /\ Len(snapshots) = 2
    /\ snapshots = last.before
    /\ last.arg[1] # snapshots[2].spec_data
    /\ snapshots[1].spec_data.paths = snapshots[2].spec_data.paths
    /\ snapshots[1].spec_hash # snapshots[2].spec_hash

----------------------------------------------------------------------------
(* main.py: the exit code *)

\* the issues of the last run hold a critical or an error issue
HasBlockingIssue ==
    \E i \in 1..Len(cli.issues) :
        cli.issues[i].severity \in {"critical", "error"}

\* C18: the exit code of a command is 130 when the user interrupts the run,
\* 1 exactly when the run produced a critical or error issue or met an
\* unhandled failure, and 0 otherwise; validate with warnings only or with
\* no issue exits 0.
C18_ExitCode ==
    (cli.returned /\ IsSome(cli.command)) =>
        cli.exit_code =
            IF cli.fault = "KeyboardInterrupt" THEN 130
            ELSE IF cli.fault = "Exception" \/ HasBlockingIssue THEN 1
            ELSE 0

\* two consecutive runs of validate, or of generate-report, that produce the
\* same issues and meet no fault, whatever the key and the language model
\* do in each
SameIssuesAgain ==
    /\ cli.returned /\ cli'.returned
    /\ cli.command \in {Some("validate"), Some("generate-report")}
    /\ cli'.command = cli.command
    /\ cli'.issues = cli.issues
    /\ cli.fault = "none" /\ cli'.fault = "none"

\* C19: a failure of the language model or a missing key never changes the
\* outcome of a command: for the same issue list, validate and
\* generate-report end with the same exit code whether the call succeeds,
\* fails or the key is missing.
C19_InsightNeverChangesExitCode ==
    [][SameIssuesAgain => cli'.exit_code = cli.exit_code]_vars

----------------------------------------------------------------------------
(* drift_detector.py: the changelog *)

\* a version was asked for and no snapshot of the history carries it
Unmatched(version) ==
    /\ IsSome(version)
    /\ \A i \in 1..Len(snapshots) : snapshots[i].spec_version # version[1]

\* the snapshot a version selects: the first one that carries it, or the
\* one at position default when no version is asked for
Selected(version, default) ==
    IF IsNone(version) THEN snapshots[default]
    ELSE snapshots[CHOOSE i \in 1..Len(snapshots) :
            /\ snapshots[i].spec_version = version[1]
            /\ \A j \in 1..(i - 1) : snapshots[j].spec_version # version[1]]

\* the call returned the changelog of the snapshots its versions select
RendersSelected ==
    LET from_snapshot == Selected(changelog[1].from_version, 1)
        to_snapshot == Selected(changelog[1].to_version, Len(snapshots))
        ret == changelog[1].ret
    IN  /\ ret.message = None
        /\ ret.from_snapshot = Some(from_snapshot)
        /\ ret.to_snapshot = Some(to_snapshot)
        /\ \E order \in Perms(MethodNames) :
               ret.changes = Some(_analyze_changes(from_snapshot.spec_data,
                                     to_snapshot.spec_data, order))

LookupFailed ==
    changelog[1].ret =
        Changelog(Some("Could not find specified versions"), None, None, None)

\* C20 as stated: generate_changelog returns the lookup-failure message
\* exactly when a version asked for matches no snapshot of the history, and
\* otherwise renders the diff of the snapshot with the from-version (the
\* first ever when none is given) and the snapshot with the to-version (the
\* most recent when none is given).
C20_LookupFailureOrDiff ==
    IsSome(changelog) =>
        IF Unmatched(changelog[1].from_version)
              \/ Unmatched(changelog[1].to_version)
        THEN LookupFailed
        ELSE RendersSelected

\* C20 amended: on a history of fewer than two snapshots the call returns
\* the message that there are not enough snapshots, whatever the versions;
\* on a history of two or more it returns the lookup-failure message
\* exactly when a version asked for matches no snapshot, and otherwise
\* renders the diff of the selected snapshots, a version selecting the
\* first snapshot that carries it.
C20_ChangelogOfTwoOrMore ==
    IsSome(changelog) =>
        IF Len(snapshots) < 2
        THEN changelog[1].ret =
                Changelog(Some("Not enough snapshots to generate changelog"),
                          None, None, None)
        ELSE IF Unmatched(changelog[1].from_version)
                   \/ Unmatched(changelog[1].to_version)
        THEN LookupFailed
        ELSE RendersSelected

\* a changelog from the version of the second of three snapshots to the
\* most recent one
C20_Witness ==
    /\ IsSome(changelog)
    /\ Len(snapshots) = 3
    /\ IsSome(changelog[1].from_version)
    /\ IsNone(changelog[1].to_version)
    /\ changelog[1].ret.from_snapshot = Some(snapshots[2])
    /\ changelog[1].ret.to_snapshot = Some(snapshots[3])
    /\ RendersSelected

----------------------------------------------------------------------------
(* drift_detector.py: the history file *)

\* a capture_snapshot or detect_drift call
StoreCall == last'.op \in {"capture_snapshot", "detect_drift"}

\* C21: after a capture_snapshot or detect_drift call that appends, a store
\* constructed on the same directory loads a history equal to the history
\* in memory, in order; a call that does not append leaves the file as it
\* is.
C21_FileHoldsHistory ==
    [][StoreCall =>
          IF snapshots' # snapshots
          THEN _load_history(file') = snapshots'
          ELSE file' = file]_vars

----------------------------------------------------------------------------
(* api_validator.py: the status gate and the shape of the body *)

\* C22: a response with a status of 400 or more draws no issue about its
\* body, whatever the body and the declared schema are: all the request can
\* add is the one warning of the status check.
C22_NoSchemaCheckFrom400 ==
    (Answered /\ attempt[1].outcome.status_code >= 400) =>
        /\ Len(attempt[1].added) <= 1
        /\ \A i \in 1..Len(attempt[1].added) : i \in Warnings

\* a 404 that is declared with an object schema and required names, with a
\* body that is not JSON: no issue at all
C22_Witness ==
    /\ Answered
    /\ attempt[1].outcome.status_code = 404
    /\ ~attempt[1].outcome.body.json
    /\ DeclaredSchema = Some(SchemaIdName)
    /\ attempt[1].added = <<>>

\* the last response has a status below 400 and a body that parses as JSON,
\* and a schema is declared for its status
BodyAgainstSchema ==
    /\ Answered
    /\ attempt[1].outcome.status_code < 400
    /\ attempt[1].outcome.body.json
    /\ IsSome(DeclaredSchema)

\* C23: against a schema of type object a body that is not a mapping draws
\* exactly one error, with expected "object", and no issue about required
\* names; against a schema of type array a body that is not a sequence
\* draws exactly one error; a schema of another type, and a body of the
\* declared shape that misses no required name, draw no issue.
C23_TypeShape ==
    BodyAgainstSchema =>
        LET schema == DeclaredSchema[1]
            body == attempt[1].outcome.body
            added == attempt[1].added
            required == OrElse(schema.required, <<>>)
        IN  /\ (schema.type = Some("object") /\ body.type # "dict") =>
                   /\ Len(added) = 1
                   /\ added[1].severity = "error"
                   /\ added[1].message = "Response should be an object"
                   /\ added[1].expected = Some(PyStr("object"))
                   /\ added[1].actual = Some(PyStr(body.type))
            /\ (schema.type = Some("array") /\ body.type # "list") =>
                   /\ Len(added) = 1
                   /\ added[1].severity = "error"
                   /\ added[1].message = "Response should be an array"
                   /\ added[1].expected = Some(PyStr("array"))
            /\ (\/ schema.type \notin {Some("object"), Some("array")}
                \/ schema.type = Some("array") /\ body.type = "list"
                \/ /\ schema.type = Some("object") /\ body.type = "dict"
                   /\ Range(required) \subseteq Range(body.keys)) =>
                   added = <<>>

\* a JSON list against an object schema with required names: one error
C23_Witness ==
    /\ BodyAgainstSchema
    /\ DeclaredSchema = Some(SchemaIdName)
    /\ attempt[1].outcome.body.type = "list"
    /\ Len(attempt[1].added) = 1
    /\ attempt[1].added[1].expected = Some(PyStr("object"))

----------------------------------------------------------------------------
(* drift_detector.py: what the ChangeSet does not list *)

\* the operations of new that sit under a path of old whose item does not
\* have their method
AddedMethods(old, new) ==
    LET old_paths == OrElse(old.paths, EmptyDict)
        new_paths == OrElse(new.paths, EmptyDict)
    IN  UNION {{<<new_paths[i][1], m>> :
                    m \in Range(Keys(new_paths[i][2]))
                            \ Range(Keys(Get(old_paths, new_paths[i][1])))} :
                 i \in {k \in 1..Len(new_paths) :
                            HasKey(old_paths, new_paths[k][1])}}

\* new has the paths of old and no other, and under each of them every
\* operation of old, unchanged
NothingButAdditions(old, new) ==
    LET old_paths == OrElse(old.paths, EmptyDict)
        new_paths == OrElse(new.paths, EmptyDict)
    IN  /\ Range(Keys(old_paths)) = Range(Keys(new_paths))
        /\ \A i \in 1..Len(old_paths) :
              LET old_item == old_paths[i][2]
                  new_item == Get(new_paths, old_paths[i][1])
              IN  \A j \in 1..Len(old_item) :
                     /\ HasKey(new_item, old_item[j][1])
                     /\ ~OpDiffers(old_item[j][2],
                                   Get(new_item, old_item[j][1]))

EmptyChangeSet ==
    [added_endpoints |-> <<>>, removed_endpoints |-> <<>>,
     modified_endpoints |-> <<>>, breaking_changes |-> <<>>]

\* C24: a method added to a path that both documents have is in none of the
\* four lists of the ChangeSet; a detect_drift call whose document differs
\* from the last snapshot's by such methods only, or outside paths only,
\* reports has_drift = true with an empty ChangeSet.
C24_AddedMethodUnlisted ==
    (last.op = "detect_drift" /\ Len(last.before) > 0) =>
        LET prior == last.before[Len(last.before)]
            s == last.arg[1]
            report == last.report[1]
        IN  /\ \A pm \in AddedMethods(prior.spec_data, s) :
                  /\ report.has_drift
                  /\ LET endpoint == Endpoint(pm[2], pm[1])
                         c == report.changes[1]
                     IN  /\ endpoint \notin Range(c.added_endpoints)
                         /\ endpoint \notin Range(c.removed_endpoints)
                         /\ endpoint \notin Range(c.modified_endpoints)
                         /\ \A i \in 1..Len(c.breaking_changes) :
                                c.breaking_changes[i].endpoint # endpoint
            /\ (/\ SpecHash(s) # prior.spec_hash
                /\ NothingButAdditions(prior.spec_data, s)) =>
                  /\ report.has_drift
                  /\ report.changes = Some(EmptyChangeSet)

\* POST /users added to a snapshot that had GET /users only: drift is
\* reported and the ChangeSet is empty
C24_Witness ==
    /\ last.op = "detect_drift"
    /\ Len(last.before) > 0
    /\ AddedMethods(last.before[Len(last.before)].spec_data, last.arg[1])
          = {<<"/users", "post">>}
    /\ last.report[1].has_drift
    /\ last.report[1].changes = Some(EmptyChangeSet)

\* the same with nothing but info.version changed
C24_VersionOnly ==
    /\ last.op = "detect_drift"
    /\ Len(last.before) > 0
    /\ last.before[Len(last.before)].spec_data.paths = last.arg[1].paths
    /\ last.before[Len(last.before)].spec_data.info_version
          # last.arg[1].info_version
    /\ last.report[1].has_drift
    /\ last.report[1].changes = Some(EmptyChangeSet)

----------------------------------------------------------------------------
(* drift_detector.py: the history only grows *)

\* the snapshots held before the step are the first snapshots held after it
HistoryKept ==
    /\ Len(snapshots') >= Len(snapshots)
    /\ SubSeq(snapshots', 1, Len(snapshots)) = snapshots

\* the step is a capture_snapshot or detect_drift call: it leaves its record
\* in last, and reads the clock unless the store is empty
GrowingCall ==
    /\ last'.op \in {"capture_snapshot", "detect_drift"}
    /\ <<last, clock>>' # <<last, clock>>

\* the step is a generate_changelog or get_drift_summary call
ReadingCall ==
    \/ changelog' # changelog
    \/ last'.op = "get_drift_summary" /\ last' # last

\* C25: capture_snapshot, detect_drift, generate_changelog and
\* get_drift_summary keep the snapshots held before the call as a prefix of
\* the history; capture_snapshot and detect_drift add at most one snapshot,
\* generate_changelog and get_drift_summary add none.
C25_AppendOnly ==
    [][/\ GrowingCall =>
             HistoryKept /\ Len(snapshots') <= Len(snapshots) + 1
       /\ ReadingCall =>
             snapshots' = snapshots /\ file' = file]_vars

\* a history of two snapshots that a detect_drift call made from one, after
\* which a changelog and a summary were asked for
C25_Witness ==
    /\ Len(snapshots) = 2
    /\ last.op = "get_drift_summary"
    /\ last.report[1].total_snapshots = 2
    /\ IsSome(changelog)
    /\ IsSome(changelog[1].ret.changes)
    /\ file = _save_history(snapshots)

----------------------------------------------------------------------------
(* drift_detector.py: the lists of one ChangeSet against each other *)

\* the endpoints of the endpoint_removed breaking changes, in their order
EndpointsRemoved ==
    LET removals == SelectSeq(changes[1].breaking_changes,
                        LAMBDA bc : bc.type = "endpoint_removed")
    IN  [i \in 1..Len(removals) |-> removals[i].endpoint]

\* C26: the removed_endpoints of a ChangeSet are, entry by entry, the
\* endpoints of its endpoint_removed breaking changes; a method lost by a
\* path that both documents have has a method_removed breaking change and
\* is no removed endpoint; no endpoint is in two of the added, removed and
\* modified lists.
C26_RemovedListsAgree ==
    IsSome(changes) =>
        LET c == changes[1] IN
        /\ c.removed_endpoints = EndpointsRemoved
        /\ \A pm \in LostMethods :
              /\ \E bc \in Range(c.breaking_changes) :
                    /\ bc.type = "method_removed"
                    /\ bc.endpoint = Endpoint(pm[2], pm[1])
              /\ Endpoint(pm[2], pm[1]) \notin Range(c.removed_endpoints)
        /\ Range(c.added_endpoints) \cap Range(c.removed_endpoints) = {}
        /\ Range(c.added_endpoints) \cap Range(c.modified_endpoints) = {}
        /\ Range(c.removed_endpoints) \cap Range(c.modified_endpoints) = {}

\* a diff with a removed path and a path that lost a method
C26_Witness ==
    /\ IsSome(changes)
    /\ Len(changes[1].removed_endpoints) > 0
    /\ LostMethods # {}

====
